---------------------------- MODULE Spec2Model ----------------------------
(***************************************************************************)
(* A model of the metrics engine of assets/app.js: the enrichment of the   *)
(* order rows, the aggregation primitives (groupSum, toShareMap), the KPI  *)
(* computation, the bootstrap confidence interval, the churn classifier    *)
(* and the cohort retention matrix.                                        *)
(*                                                                         *)
(* Numbers.  Money is counted in whole currency units and a discount in    *)
(* hundredths, so sums are integers; a quotient a/b is the pair <<a, b>>   *)
(* with b > 0, compared by cross multiplication.  Arithmetic is exact:     *)
(* the rounding of IEEE doubles is not modelled.                           *)
(*                                                                         *)
(* Time.  A Date is the number of whole days since 1970-01-01 (the code's  *)
(* milliseconds divided by 24*3600*1000); every order is placed at         *)
(* midnight and the calendar is the proleptic Gregorian one in a single    *)
(* time zone without daylight saving.                                      *)
(*                                                                         *)
(* Maps.  A JavaScript Map is a function; its keys are the function's      *)
(* domain.  Insertion order is not kept: the code never depends on it.     *)
(***************************************************************************)
EXTENDS Integers, Sequences, FiniteSets, TLC

(***************************************************************************)
(* Bounds of the model.                                                    *)
(***************************************************************************)
MaxOrders == 3

(***************************************************************************)
(* Numbers: `x || 1`, `x || 0` and quotients.                              *)
(***************************************************************************)
OrOne(x) == IF x = 0 THEN 1 ELSE x

Quot(a, b) == <<a, b>>

RatEq(p, q) == p[1] * q[2] = q[1] * p[2]

RatLe(p, q) == p[1] * q[2] <= q[1] * p[2]

RatAdd(p, q) == <<p[1] * q[2] + q[1] * p[2], p[2] * q[2]>>

RatSub(p, q) == <<p[1] * q[2] - q[1] * p[2], p[2] * q[2]>>

Zero == <<0, 1>>

One == <<1, 1>>

\* r || 0 for a quotient r.
RatOrZero(r) == IF r[1] = 0 THEN Zero ELSE r

\* arr.reduce((a,b)=>a+b, 0)
RECURSIVE SumSeq(_)
SumSeq(s) == IF s = <<>> THEN 0 ELSE SumSeq(SubSeq(s, 1, Len(s) - 1)) + s[Len(s)]

\* arr.map(o => o.f)
Field(s, f) == [i \in 1..Len(s) |-> s[i][f]]

mean(arr) == Quot(SumSeq(arr), OrOne(Len(arr)))

(***************************************************************************)
(* Maps.                                                                   *)
(***************************************************************************)
EmptyMap == <<>>

MapHas(m, k) == k \in DOMAIN m

\* (m.get(k) || 0)
GetOrZero(m, k) == IF k \in DOMAIN m THEN m[k] ELSE 0

MapSet(m, k, v) == [x \in (DOMAIN m) \cup {k} |-> IF x = k THEN v ELSE m[x]]

RECURSIVE SumOver(_, _)
SumOver(m, S) ==
    IF S = {} THEN 0
    ELSE LET k == CHOOSE x \in S : TRUE IN m[k] + SumOver(m, S \ {k})

\* Array.from(map.values()).reduce((a,b)=>a+b, 0)
SumValues(m) == SumOver(m, DOMAIN m)

(***************************************************************************)
(* Dates.  parseDate reads the fields of an ISO string, here the triple    *)
(* <<year, month, day>>, into a Date; getFullYear and getMonth read a Date *)
(* back (getMonth counts from 0, as in JavaScript).                        *)
(***************************************************************************)
DaysFromCivil(y0, m, d) ==
    LET y   == IF m <= 2 THEN y0 - 1 ELSE y0
        era == y \div 400
        yoe == y - era * 400
        mp  == IF m > 2 THEN m - 3 ELSE m + 9
        doy == (153 * mp + 2) \div 5 + d - 1
        doe == yoe * 365 + yoe \div 4 - yoe \div 100 + doy
    IN  era * 146097 + doe - 719468

CivilFromDays(t) ==
    LET z   == t + 719468
        era == z \div 146097
        doe == z - era * 146097
        yoe == (doe - doe \div 1460 + doe \div 36524 - doe \div 146096) \div 365
        doy == doe - (365 * yoe + yoe \div 4 - yoe \div 100)
        mp  == (5 * doy + 2) \div 153
        d   == doy - (153 * mp + 2) \div 5 + 1
        m   == IF mp < 10 THEN mp + 3 ELSE mp - 9
        y   == yoe + era * 400
    IN  <<IF m <= 2 THEN y + 1 ELSE y, m, d>>

parseDate(s) == DaysFromCivil(s[1], s[2], s[3])

getFullYear(t) == CivilFromDays(t)[1]

getMonth(t) == CivilFromDays(t)[2] - 1

\* new Date(year, monthIndex, day)
NewDate(year, monthIndex, day) == DaysFromCivil(year, monthIndex + 1, day)

\* new Date(0)
Epoch == NewDate(1970, 0, 1)

(***************************************************************************)
(* Strings of the month axis: a string is the sequence of its character    *)
(* codes, compared code unit by code unit as Array.prototype.sort does.    *)
(***************************************************************************)
RECURSIVE Digits(_)
Digits(n) == IF n < 10 THEN <<48 + n>> ELSE Digits(n \div 10) \o <<48 + (n % 10)>>

\* String(n).padStart(2, '0')
PadStart2(s) == IF Len(s) < 2 THEN <<48>> \o s ELSE s

\* `${d.getFullYear()}-${String(d.getMonth()+1).padStart(2,'0')}`
ym(t) == Digits(getFullYear(t)) \o <<45>> \o PadStart2(Digits(getMonth(t) + 1))

RECURSIVE StrLess(_, _)
StrLess(a, b) ==
    IF b = <<>> THEN FALSE
    ELSE IF a = <<>> THEN TRUE
    ELSE IF a[1] # b[1] THEN a[1] < b[1]
    ELSE StrLess(Tail(a), Tail(b))

\* Array.from(new Set(keys)).sort()
RECURSIVE SortStrings(_)
SortStrings(S) ==
    IF S = {} THEN <<>>
    ELSE LET lo == CHOOSE x \in S : \A y \in S : x = y \/ StrLess(x, y)
         IN  <<lo>> \o SortStrings(S \ {lo})

(***************************************************************************)
(* Aggregation primitives.                                                 *)
(***************************************************************************)
\* A mutant of Accumulate: the value replaces the sum so far.
AccumulateOverwriting(m, k, v) == MapSet(m, k, v)

\* m.set(k, (m.get(k) || 0) + v)
Accumulate(m, k, v) == MapSet(m, k, GetOrZero(m, k) + v)

\* keyFn and valFn are functions on the elements of arr.
groupSum(arr, keyFn, valFn) ==
    LET step[i \in 0..Len(arr)] ==
            IF i = 0 THEN EmptyMap
            ELSE Accumulate(step[i - 1], keyFn[arr[i]], valFn[arr[i]])
    IN  step[Len(arr)]

\* A mutant of ShareDivisor: the 1 is the start value of the sum.
ShareDivisorSeeded(map) == SumValues(map) + 1

\* const total = ... .reduce((a,b)=>a+b,0) || 1
ShareDivisor(map) == OrOne(SumValues(map))

toShareMap(map) == [k \in DOMAIN map |-> Quot(map[k], ShareDivisor(map))]

(***************************************************************************)
(* Bootstrap confidence interval.                                          *)
(***************************************************************************)
\* The place of x in a sorted array under (x,y)=>x-y.
InsertNumber(sorted, x) ==
    LET n == Cardinality({k \in 1..Len(sorted) : RatLe(sorted[k], x)})
    IN  SubSeq(sorted, 1, n) \o <<x>> \o SubSeq(sorted, n + 1, Len(sorted))

\* A mutant of SortNumbers: the differences stay in the order recorded.
SortNumbersSkipped(s) == s

\* diffs.sort((x,y)=>x-y)
RECURSIVE SortNumbers(_)
SortNumbers(s) ==
    IF s = <<>> THEN <<>>
    ELSE InsertNumber(SortNumbers(SubSeq(s, 1, Len(s) - 1)), s[Len(s)])

\* Math.floor(q * B) for q = perMille / 1000
FloorOf(perMille, B) == (perMille * B) \div 1000

\* arr[k], counting from 0; undefined outside the array
At(arr, k) == IF k + 1 \in DOMAIN arr THEN arr[k + 1] ELSE <<>>

\* Array.from({length: data.length}, () => data[Math.floor(Math.random()*data.length)])
\* for the draws given: draw[k] is the index the k-th call of Math.random yields.
Resample(data, draw) == [k \in 1..Len(data) |-> data[draw[k]]]

\* Every outcome of data.length draws.
Draws(data) == [1..Len(data) -> 1..Len(data)]

(***************************************************************************)
(* Rows.  A row is a record; a cell the CSV leaves empty is a field the    *)
(* record does not have.                                                   *)
(***************************************************************************)
\* (o.f || 0)
NumOrZero(o, f) == IF f \in DOMAIN o THEN o[f] ELSE 0

\* A mutant of MapById: the first row with an id is kept.
MapByIdFirstWins(rows, id) ==
    LET step[i \in 0..Len(rows)] ==
            IF i = 0 THEN EmptyMap
            ELSE IF rows[i][id] \in DOMAIN step[i - 1] THEN step[i - 1]
                 ELSE MapSet(step[i - 1], rows[i][id], rows[i])
    IN  step[Len(rows)]

\* new Map(rows.map(r => [r.id, r])): a later row replaces an earlier one.
MapById(rows, id) ==
    LET step[i \in 0..Len(rows)] ==
            IF i = 0 THEN EmptyMap ELSE MapSet(step[i - 1], rows[i][id], rows[i])
    IN  step[Len(rows)]

\* p ? p.f : 'Unknown'
JoinedField(byId, key, f) == IF key \in DOMAIN byId THEN byId[key][f] ELSE "Unknown"

Revenue(o) == NumOrZero(o, "quantity") * NumOrZero(o, "unit_price")

EnrichOrder(o, prodById, custById) ==
    [order_dt |-> parseDate(o.order_date),
     revenue  |-> Revenue(o),
     category |-> JoinedField(prodById, o.product_id, "category"),
     segment  |-> JoinedField(custById, o.customer_id, "segment"),
     country  |-> JoinedField(custById, o.customer_id, "country")] @@ o

(***************************************************************************)
(* KPI computation.                                                        *)
(***************************************************************************)
Elements(arr) == {arr[i] : i \in 1..Len(arr)}

\* o => o.revenue
RevenueOf(ords) == [o \in Elements(ords) |-> o.revenue]

\* o => o.customer_id
CustomerOf(ords) == [o \in Elements(ords) |-> o.customer_id]

\* o => o.order_dt.getMonth()+1
MonthOf(ords) == [o \in Elements(ords) |-> getMonth(o.order_dt) + 1]

\* the + 1 of ordersByCust
OneOrder(ords) == [o \in Elements(ords) |-> 1]

\* orders.reduce((s,o)=>s+o.revenue,0)
TotalRevenue(ords) == SumSeq(Field(ords, "revenue"))

\* A mutant of IsRepeatBuyer: a single order already counts as a repeat.
IsRepeatBuyerFromOne(byCust, c) == GetOrZero(byCust, c) >= 1

IsRepeatBuyer(byCust, c) == GetOrZero(byCust, c) > 1

RepeatBuyers(byCust) == {c \in DOMAIN byCust : IsRepeatBuyer(byCust, c)}

RepeatRate(byCust) ==
    Quot(Cardinality(RepeatBuyers(byCust)), OrOne(Cardinality(DOMAIN byCust)))

(***************************************************************************)
(* Promotional window.                                                     *)
(***************************************************************************)
\* (o.discount || 0) > 0
IsDiscounted(o) == NumOrZero(o, "discount") > 0

InWindow(o, bfStart, bfEnd) == o.order_dt >= bfStart /\ o.order_dt <= bfEnd

DiscountOf(o) == NumOrZero(o, "discount")

\* A mutant of AvgDiscOnly: an order without discount counts as a discount of 0.
AvgDiscOverAll(ords) == RatOrZero(mean([k \in 1..Len(ords) |-> DiscountOf(ords[k])]))

\* mean(set.filter(o=> (o.discount||0) > 0).map(o=>o.discount||0)) || 0
AvgDiscOnly(ords) ==
    LET disc == SelectSeq(ords, IsDiscounted)
    IN  RatOrZero(mean([i \in 1..Len(disc) |-> DiscountOf(disc[i])]))

DiscRate(ords) == Quot(Len(SelectSeq(ords, IsDiscounted)), OrOne(Len(ords)))

(***************************************************************************)
(* Churn classifier.                                                       *)
(***************************************************************************)
DateMax(a, b) == IF a > b THEN a ELSE b

\* orders.reduce((max, o) => o.order_dt > max ? o.order_dt : max, new Date(0))
EndDate(ords) ==
    LET step[i \in 0..Len(ords)] ==
            IF i = 0 THEN Epoch ELSE DateMax(ords[i].order_dt, step[i - 1])
    IN  step[Len(ords)]

\* map.get(c) || new Date(0)
GetOrEpoch(m, c) == IF c \in DOMAIN m THEN m[c] ELSE Epoch

\* A mutant of LastOrder: the order seen last is recorded, not the latest.
LastOrderLastSeen(ords) ==
    LET step[i \in 0..Len(ords)] ==
            IF i = 0 THEN EmptyMap
            ELSE MapSet(step[i - 1], ords[i].customer_id, ords[i].order_dt)
    IN  step[Len(ords)]

LastOrder(ords) ==
    LET step[i \in 0..Len(ords)] ==
            IF i = 0 THEN EmptyMap
            ELSE LET m == step[i - 1]
                     o == ords[i]
                 IN  IF o.order_dt > GetOrEpoch(m, o.customer_id)
                     THEN MapSet(m, o.customer_id, o.order_dt)
                     ELSE m
    IN  step[Len(ords)]

\* A mutant of Cutoff: the window is laid after the end date.
CutoffAfterEnd(endDt, windowDays) == endDt + windowDays

\* A mutant of Cutoff: the window length is not subtracted.
CutoffWithoutWindow(endDt, windowDays) == endDt

Cutoff(endDt, windowDays) == endDt - windowDays

\* A mutant of IsChurned: an order exactly at the cutoff counts as churned.
IsChurnedInclusive(lo, cutoff) == lo <= cutoff

\* if (lo < cutoff) churned++
IsChurned(lo, cutoff) == lo < cutoff

ChurnedBuyers(ords, buyersSet, cutoff) ==
    {c \in buyersSet : IsChurned(GetOrEpoch(LastOrder(ords), c), cutoff)}

computeChurn(ords, buyersSet, endDt, windowDays) ==
    LET cutoff  == Cutoff(endDt, windowDays)
        churned == Cardinality(ChurnedBuyers(ords, buyersSet, cutoff))
    IN  [rate    |-> Quot(churned, OrOne(Cardinality(buyersSet))),
         churned |-> churned,
         buyers  |-> Cardinality(buyersSet),
         cutoff  |-> cutoff]

(***************************************************************************)
(* Cohort retention matrix.                                                *)
(***************************************************************************)
\* A mutant of InsertByDate: the comparator is reversed, latest order first.
InsertByDateDescending(sorted, x) ==
    LET n == Cardinality({i \in 1..Len(sorted) : sorted[i].order_dt >= x.order_dt})
    IN  SubSeq(sorted, 1, n) \o <<x>> \o SubSeq(sorted, n + 1, Len(sorted))

\* The place of x in a sorted array under (a,b)=>a.order_dt-b.order_dt: after
\* every element that does not come later (the sort is stable).
InsertByDate(sorted, x) ==
    LET n == Cardinality({i \in 1..Len(sorted) : sorted[i].order_dt <= x.order_dt})
    IN  SubSeq(sorted, 1, n) \o <<x>> \o SubSeq(sorted, n + 1, Len(sorted))

\* A mutant of SortByDate: the orders stay as loaded.
SortByDateSkipped(s) == s

RECURSIVE SortByDate(_)
SortByDate(s) ==
    IF s = <<>> THEN <<>>
    ELSE InsertByDate(SortByDate(SubSeq(s, 1, Len(s) - 1)), s[Len(s)])

\* A mutant of FirstOrder: every order replaces the recorded one.
FirstOrderOverwritten(sorted) ==
    LET step[i \in 0..Len(sorted)] ==
            IF i = 0 THEN EmptyMap
            ELSE MapSet(step[i - 1], sorted[i].customer_id, sorted[i].order_dt)
    IN  step[Len(sorted)]

\* if (!firstOrder.has(o.customer_id)) firstOrder.set(o.customer_id, o.order_dt)
FirstOrder(sorted) ==
    LET step[i \in 0..Len(sorted)] ==
            IF i = 0 THEN EmptyMap
            ELSE LET m == step[i - 1]
                     o == sorted[i]
                 IN  IF MapHas(m, o.customer_id) THEN m
                     ELSE MapSet(m, o.customer_id, o.order_dt)
    IN  step[Len(sorted)]

CohortMembers(first) ==
    [key \in {ym(first[c]) : c \in DOMAIN first} |->
        {c \in DOMAIN first : ym(first[c]) = key}]

BuyersByMonth(ords) ==
    [key \in {ym(ords[i].order_dt) : i \in 1..Len(ords)} |->
        {ords[i].customer_id : i \in {j \in 1..Len(ords) : ym(ords[j].order_dt) = key}}]

MonthAxis(byMonth, members) == SortStrings((DOMAIN byMonth) \cup (DOMAIN members))

\* map.get(k) || new Set()
GetOrEmptySet(m, k) == IF k \in DOMAIN m THEN m[k] ELSE {}

Null == <<>>

\* A mutant of RetentionCell: the diagonal is masked too.
RetentionCellMaskedDiagonal(cohort, buyersSet, iIdx, jIdx) ==
    IF jIdx <= iIdx THEN Null
    ELSE IF Cardinality(cohort) # 0
         THEN Quot(Cardinality({c \in cohort : c \in buyersSet}), Cardinality(cohort))
         ELSE Zero

RetentionCell(cohort, buyersSet, iIdx, jIdx) ==
    IF jIdx < iIdx THEN Null
    ELSE IF Cardinality(cohort) # 0
         THEN Quot(Cardinality({c \in cohort : c \in buyersSet}), Cardinality(cohort))
         ELSE Zero

Retention(axis, members, byMonth) ==
    [iIdx \in 1..Len(axis) |->
        [jIdx \in 1..Len(axis) |->
            RetentionCell(GetOrEmptySet(members, axis[iIdx]),
                          GetOrEmptySet(byMonth, axis[jIdx]), iIdx, jIdx)]]

(***************************************************************************)
(* The state of main(): the three loaded tables, the orders array it works *)
(* on (enriched in place, later sorted in place), the position in main and *)
(* every metric it has computed so far.  loaded keeps the order rows as    *)
(* loadCSV returned them.                                                  *)
(***************************************************************************)
VARIABLES loaded, customers, products, orders, pc,
          totalRev, ordersByCust, revByCust, buyers, repeatRateBuyers, monthRev,
          year, bfOrders, nonbfOrders, bfDiscRate, nonbfDiscRate,
          bfAvgDiscOnly, nonbfAvgDiscOnly,
          endDate, churn60, churn90, churn120, churn180, selected, churnSelected,
          firstOrder, cohortMembers, buyersByMonth, months, retention

(***************************************************************************)
(* The state of one call of a function checked on its own: groupSum with   *)
(* the total it is compared to (gArr, gKey, gOut, gTotal), toShareMap      *)
(* (sIn, sOut) and bootstrapCI with its loop counter and the differences   *)
(* recorded so far (dataA, dataB, iters, iterI, diffs, ci).                *)
(***************************************************************************)
VARIABLES gArr, gKey, gOut, gTotal, gPc,
          sIn, sOut, sPc,
          dataA, dataB, iters, iterI, diffs, ci, bPc

groupVars == <<gArr, gKey, gOut, gTotal, gPc>>

shareVars == <<sIn, sOut, sPc>>

bootVars == <<dataA, dataB, iters, iterI, diffs, ci, bPc>>

callVars == <<groupVars, shareVars, bootVars>>

inputVars == <<loaded, customers, products>>

kpiVars == <<totalRev, ordersByCust, revByCust, buyers, repeatRateBuyers, monthRev>>

promoVars == <<year, bfOrders, nonbfOrders, bfDiscRate, nonbfDiscRate,
               bfAvgDiscOnly, nonbfAvgDiscOnly>>

churnVars == <<endDate, churn60, churn90, churn120, churn180>>

selectVars == <<selected, churnSelected>>

cohortVars == <<firstOrder, cohortMembers, buyersByMonth, months, retention>>

mainVars == <<inputVars, orders, pc, kpiVars, promoVars, churnVars, selectVars, cohortVars>>

vars == <<mainVars, callVars>>

(***************************************************************************)
(* Inputs.                                                                 *)
(***************************************************************************)
SeqsUpTo(S, n) == UNION {[1..k -> S] : k \in 0..n}

Customers == {"C1", "C2"}

\* 2022-12-16 and the days 60, 90 and 180 days after it.
OrderDates == {<<2022, 12, 16>>, <<2023, 2, 14>>, <<2023, 3, 16>>, <<2023, 6, 14>>}

OrderRows ==
    [customer_id : Customers, order_date : OrderDates, product_id : {"P1"},
     quantity : {1}, unit_price : {10}]

CustomerTable == <<[customer_id |-> "C1", segment |-> "Retail", country |-> "US"]>>

ProductTable == <<[product_id |-> "P1", category |-> "Toys"]>>

\* The year new Date() may report when there is no order to take it from.
ClockYears == {2023, 2024}

\* The values the churn-window control may hold.
SelectWindows == {0, 30, 60, 90, 120, 180}

NoChurn == [rate |-> Zero, churned |-> 0, buyers |-> 0, cutoff |-> 0]

NoGroupCall ==
    /\ gArr = <<>>
    /\ gKey = EmptyMap
    /\ gOut = EmptyMap
    /\ gTotal = 0
    /\ gPc = "off"

NoShareCall ==
    /\ sIn = EmptyMap
    /\ sOut = EmptyMap
    /\ sPc = "off"

NoBootCall ==
    /\ dataA = <<>>
    /\ dataB = <<>>
    /\ iters = 0
    /\ iterI = 0
    /\ diffs = <<>>
    /\ ci = [diff |-> Zero, lo |-> Zero, hi |-> Zero]
    /\ bPc = "off"

\* Nothing is computed yet.
NothingComputed ==
    /\ totalRev = 0
    /\ ordersByCust = EmptyMap
    /\ revByCust = EmptyMap
    /\ buyers = {}
    /\ repeatRateBuyers = Zero
    /\ monthRev = EmptyMap
    /\ year = 0
    /\ bfOrders = <<>>
    /\ nonbfOrders = <<>>
    /\ bfDiscRate = Zero
    /\ nonbfDiscRate = Zero
    /\ bfAvgDiscOnly = Zero
    /\ nonbfAvgDiscOnly = Zero
    /\ endDate = Epoch
    /\ churn60 = NoChurn
    /\ churn90 = NoChurn
    /\ churn120 = NoChurn
    /\ churn180 = NoChurn
    /\ selected = 0
    /\ churnSelected = NoChurn
    /\ firstOrder = EmptyMap
    /\ cohortMembers = EmptyMap
    /\ buyersByMonth = EmptyMap
    /\ months = <<>>
    /\ retention = <<>>

\* main() has the three tables and has computed nothing yet.
Loaded(rows, custs, prods) ==
    /\ loaded = rows
    /\ customers = custs
    /\ products = prods
    /\ orders = rows
    /\ pc = "enrich"
    /\ NothingComputed
    /\ NoGroupCall
    /\ NoShareCall
    /\ NoBootCall

\* main() is not running.
NoMain ==
    /\ loaded = <<>>
    /\ customers = <<>>
    /\ products = <<>>
    /\ orders = <<>>
    /\ pc = "off"
    /\ NothingComputed

Init == \E rows \in SeqsUpTo(OrderRows, MaxOrders) :
            Loaded(rows, CustomerTable, ProductTable)

(***************************************************************************)
(* The steps of main(), in program order.                                  *)
(***************************************************************************)
Enrich ==
    /\ pc = "enrich"
    /\ LET prodById == MapById(products, "product_id")
           custById == MapById(customers, "customer_id")
       IN  orders' = [i \in 1..Len(orders) |-> EnrichOrder(orders[i], prodById, custById)]
    /\ pc' = "kpis"
    /\ UNCHANGED <<inputVars, kpiVars, promoVars, churnVars, selectVars, cohortVars, callVars>>

ComputeKPIs ==
    /\ pc = "kpis"
    /\ totalRev' = TotalRevenue(orders)
    /\ ordersByCust' = groupSum(orders, CustomerOf(orders), OneOrder(orders))
    /\ revByCust' = groupSum(orders, CustomerOf(orders), RevenueOf(orders))
    /\ buyers' = DOMAIN ordersByCust'
    /\ repeatRateBuyers' = RepeatRate(ordersByCust')
    /\ monthRev' = groupSum(orders, MonthOf(orders), RevenueOf(orders))
    /\ pc' = "promo"
    /\ UNCHANGED <<inputVars, orders, promoVars, churnVars, selectVars, cohortVars, callVars>>

ComputePromo ==
    /\ pc = "promo"
    /\ \E y \in (IF orders # <<>> THEN {getFullYear(orders[1].order_dt)} ELSE ClockYears) :
        LET bfStart == NewDate(y, 10, 20)
            bfEnd   == NewDate(y, 10, 30)
            In(o)   == InWindow(o, bfStart, bfEnd)
            Out(o)  == ~InWindow(o, bfStart, bfEnd)
        IN  /\ year' = y
            /\ bfOrders' = SelectSeq(orders, In)
            /\ nonbfOrders' = SelectSeq(orders, Out)
    /\ bfDiscRate' = DiscRate(bfOrders')
    /\ nonbfDiscRate' = DiscRate(nonbfOrders')
    /\ bfAvgDiscOnly' = AvgDiscOnly(bfOrders')
    /\ nonbfAvgDiscOnly' = AvgDiscOnly(nonbfOrders')
    /\ pc' = "churn"
    /\ UNCHANGED <<inputVars, orders, kpiVars, churnVars, selectVars, cohortVars, callVars>>

ComputeChurn ==
    /\ pc = "churn"
    /\ endDate' = EndDate(orders)
    /\ churn60' = computeChurn(orders, buyers, endDate', 60)
    /\ churn90' = computeChurn(orders, buyers, endDate', 90)
    /\ churn120' = computeChurn(orders, buyers, endDate', 120)
    /\ churn180' = computeChurn(orders, buyers, endDate', 180)
    /\ pc' = "cohort"
    /\ UNCHANGED <<inputVars, orders, kpiVars, promoVars, selectVars, cohortVars, callVars>>

BuildCohort ==
    /\ pc = "cohort"
    /\ orders' = SortByDate(orders)
    /\ firstOrder' = FirstOrder(orders')
    /\ cohortMembers' = CohortMembers(firstOrder')
    /\ buyersByMonth' = BuyersByMonth(orders')
    /\ months' = MonthAxis(buyersByMonth', cohortMembers')
    /\ retention' = Retention(months', cohortMembers', buyersByMonth')
    /\ pc' = "select"
    /\ UNCHANGED <<inputVars, kpiVars, promoVars, churnVars, selectVars, callVars>>

\* updateSelected: called once by main() and then on every change event.
UpdateSelected ==
    /\ pc \in {"select", "idle"}
    /\ \E v \in SelectWindows :
        /\ selected' = v
        /\ churnSelected' = computeChurn(orders, buyers, endDate, v)
    /\ pc' = "idle"
    /\ UNCHANGED <<inputVars, orders, kpiVars, promoVars, churnVars, cohortVars, callVars>>

Next ==
    \/ Enrich
    \/ ComputeKPIs
    \/ ComputePromo
    \/ ComputeChurn
    \/ BuildCohort
    \/ UpdateSelected

Spec == Init /\ [][Next]_vars

(***************************************************************************)
(* What the claims speak of, defined from the loaded rows alone and not    *)
(* from anything main() computed.                                          *)
(***************************************************************************)
KpisDone == pc \notin {"enrich", "kpis"}

PromoDone == pc \notin {"enrich", "kpis", "promo"}

ChurnDone == pc \in {"cohort", "select", "idle"}

CohortDone == pc \in {"select", "idle"}

RowsOf(c) == {i \in 1..Len(loaded) : loaded[i].customer_id = c}

BuyerSet == {loaded[i].customer_id : i \in 1..Len(loaded)}

NumOrders(c) == Cardinality(RowsOf(c))

DatesOf(c) == {parseDate(loaded[i].order_date) : i \in RowsOf(c)}

Latest(c) == CHOOSE t \in DatesOf(c) : \A u \in DatesOf(c) : u <= t

Earliest(c) == CHOOSE t \in DatesOf(c) : \A u \in DatesOf(c) : t <= u

AllDates == {parseDate(loaded[i].order_date) : i \in 1..Len(loaded)}

\* The latest order date of the dataset (the epoch when there is no order).
DatasetEnd ==
    IF AllDates = {} THEN Epoch
    ELSE CHOOSE t \in AllDates : \A u \in AllDates : u <= t

\* The churn results computed so far, each with its window length.
ChurnResults ==
    {<<60, churn60>>, <<90, churn90>>, <<120, churn120>>, <<180, churn180>>}
        \cup (IF pc = "idle" THEN {<<selected, churnSelected>>} ELSE {})

\* The buyers a result counted as churned.
CountedChurned(r) == ChurnedBuyers(orders, buyers, r.cutoff)

\* The days between a buyer's latest order and the latest order of the dataset.
Span(c) == DatasetEnd - Latest(c)

IsNumber(cell) == cell # Null /\ Len(cell) = 2 /\ cell[2] > 0

(***************************************************************************)
(* C3 - the repeat rate.                                                   *)
(***************************************************************************)
\* C3 as stated: for every order set the repeat rate lies in [0,1], is 0 when
\* every buyer has exactly one order and is 1 when every buyer has at least
\* two orders.
C3_AsStated ==
    KpisDone =>
        /\ RatLe(Zero, repeatRateBuyers) /\ RatLe(repeatRateBuyers, One)
        /\ (\A c \in BuyerSet : NumOrders(c) = 1) => RatEq(repeatRateBuyers, Zero)
        /\ (\A c \in BuyerSet : NumOrders(c) >= 2) => RatEq(repeatRateBuyers, One)

\* C3 amended: the repeat rate is the number of buyers with more than one order
\* over the number of buyers, lies in [0,1], is 0 when every buyer has exactly
\* one order (and when there is no buyer), and is 1 when there is at least one
\* buyer and every buyer has at least two orders.
C3_RepeatRate ==
    KpisDone =>
        /\ RatLe(Zero, repeatRateBuyers) /\ RatLe(repeatRateBuyers, One)
        /\ BuyerSet # {} =>
              RatEq(repeatRateBuyers,
                    Quot(Cardinality({c \in BuyerSet : NumOrders(c) > 1}),
                         Cardinality(BuyerSet)))
        /\ (\A c \in BuyerSet : NumOrders(c) = 1) => RatEq(repeatRateBuyers, Zero)
        /\ (BuyerSet # {} /\ \A c \in BuyerSet : NumOrders(c) >= 2)
              => RatEq(repeatRateBuyers, One)

\* There is a buyer, every buyer has at least two orders, and the rate is 1.
C3_Witness ==
    /\ KpisDone
    /\ Cardinality(BuyerSet) >= 1
    /\ \A c \in BuyerSet : NumOrders(c) >= 2
    /\ RatEq(repeatRateBuyers, One)

(***************************************************************************)
(* C5 - the churn test is strict.                                          *)
(***************************************************************************)
\* C5: in computeChurn(windowDays), with cutoff = endDate - windowDays, a buyer
\* is counted as churned if and only if their latest order is strictly before
\* cutoff; a buyer whose latest order is exactly at cutoff is not counted.
C5_StrictCutoff ==
    ChurnDone =>
        \A wr \in ChurnResults :
            LET r == wr[2] IN
            /\ r.cutoff = DatasetEnd - wr[1]
            /\ \A c \in BuyerSet : c \in CountedChurned(r) <=> Latest(c) < r.cutoff
            /\ \A c \in BuyerSet : Latest(c) = r.cutoff => c \notin CountedChurned(r)
            /\ r.churned = Cardinality({c \in BuyerSet : Latest(c) < r.cutoff})
            /\ r.buyers = Cardinality(BuyerSet)

\* A buyer whose latest order is exactly at the 60-day cutoff, and nobody churned.
C5_Witness ==
    /\ ChurnDone
    /\ \E c \in BuyerSet : Latest(c) = churn60.cutoff
    /\ churn60.churned = 0
    /\ churn60.buyers = 2

(***************************************************************************)
(* C6 - churn and the inactivity span.                                     *)
(***************************************************************************)
\* C6 as stated: a buyer whose inactivity span is s = endDate - lastOrderDate
\* is counted as churned by computeChurn(w) for every window length w >= s.
C6_AsStated ==
    ChurnDone =>
        \A wr \in ChurnResults : \A c \in BuyerSet :
            wr[1] >= Span(c) => c \in CountedChurned(wr[2])

\* C6 amended: a buyer whose inactivity span is s is counted as churned by
\* computeChurn(w) exactly for the window lengths w < s, and for no w >= s.
C6_ChurnedBelowSpan ==
    ChurnDone =>
        \A wr \in ChurnResults :
            /\ \A c \in BuyerSet : c \in CountedChurned(wr[2]) <=> wr[1] < Span(c)
            /\ wr[2].churned = Cardinality({c \in BuyerSet : wr[1] < Span(c)})

\* A buyer inactive for 90 days: churned at 60 days, not churned at 90.
C6_Witness ==
    /\ ChurnDone
    /\ \E c \in BuyerSet :
        /\ Span(c) = 90
        /\ c \in CountedChurned(churn60)
        /\ c \notin CountedChurned(churn90)
    /\ churn60.churned = 1
    /\ churn90.churned = 0

(***************************************************************************)
(* C7 - the retention matrix is upper-triangular.                          *)
(***************************************************************************)
\* C7: over the sorted month axis, cell (i,j) of the retention matrix is null
\* exactly when month j precedes month i, and a number for every j at or
\* after i.
C7_UpperTriangular ==
    CohortDone =>
        /\ Len(retention) = Len(months)
        /\ \A i \in 1..Len(months) :
            /\ Len(retention[i]) = Len(months)
            /\ \A j \in 1..Len(months) :
                /\ retention[i][j] = Null <=> j < i
                /\ retention[i][j] = Null <=> StrLess(months[j], months[i])
                /\ j >= i => IsNumber(retention[i][j])

\* Three months on the axis: null below the diagonal, numbers on and above it.
C7_Witness ==
    /\ CohortDone
    /\ Len(months) = 3
    /\ retention[3][1] = Null
    /\ retention[2][1] = Null
    /\ IsNumber(retention[1][3])
    /\ IsNumber(retention[2][2])

(***************************************************************************)
(* C8 - the diagonal of the retention matrix.                              *)
(***************************************************************************)
\* C8 as stated: for every row i of the retention matrix the diagonal cell
\* (i,i) equals 1.0.
C8_AsStated ==
    CohortDone => \A i \in 1..Len(months) : RatEq(retention[i][i], One)

\* C8 amended: for every row i whose month is the month of some buyer's first
\* order the diagonal cell (i,i) equals 1.0, whether or not a member ordered
\* again in that month; for a row whose month acquired no buyer it is 0.
C8_Diagonal ==
    CohortDone =>
        \A i \in 1..Len(months) :
            IF \E c \in BuyerSet : ym(Earliest(c)) = months[i]
            THEN RatEq(retention[i][i], One)
            ELSE RatEq(retention[i][i], Zero)

\* A cohort of two in the first month, of whom only one orders again in it,
\* and a later month that acquired nobody.
C8_Witness ==
    /\ CohortDone
    /\ Len(months) = 2
    /\ Cardinality(GetOrEmptySet(cohortMembers, months[1])) = 2
    /\ \E c \in BuyerSet : NumOrders(c) = 1 /\ ym(Earliest(c)) = months[1]
    /\ RatEq(retention[1][1], One)
    /\ GetOrEmptySet(cohortMembers, months[2]) = {}
    /\ RatEq(retention[2][2], Zero)

(***************************************************************************)
(* The end-to-end example: three orders of C1 ($10 and $20 in 2023-01, $30 *)
(* in 2023-02) and one of C2 ($5 in 2023-01), loaded in any order and      *)
(* placed on any of the days below.                                        *)
(***************************************************************************)
ExampleDays == {1, 28}

ExampleRow(c, month, day, price) ==
    [customer_id |-> c, order_date |-> <<2023, month, day>>, product_id |-> "P1",
     quantity |-> 1, unit_price |-> price]

ExampleRows(d) ==
    <<ExampleRow("C1", 1, d[1], 10), ExampleRow("C1", 1, d[2], 20),
      ExampleRow("C1", 2, d[3], 30), ExampleRow("C2", 1, d[4], 5)>>

InitExample ==
    \E d \in [1..4 -> ExampleDays] : \E p \in Permutations(1..4) :
        Loaded([k \in 1..4 |-> ExampleRows(d)[p[k]]], CustomerTable, ProductTable)

SpecExample == InitExample /\ [][Next]_vars

\* "2023-01" and "2023-02"
Jan2023 == <<50, 48, 50, 51, 45, 48, 49>>

Feb2023 == <<50, 48, 50, 51, 45, 48, 50>>

Half == <<1, 2>>

\* C4: on the example, in every input ordering, repeatRate = 0.5,
\* totalRevenue = 65, monthRev[1] = 35, monthRev[2] = 30 and the retention of
\* cohort 2023-01 at month 2023-02 is 0.5.
C4_EndToEnd ==
    /\ KpisDone =>
        /\ RatEq(repeatRateBuyers, Half)
        /\ totalRev = 65
        /\ DOMAIN monthRev = {1, 2}
        /\ monthRev[1] = 35
        /\ monthRev[2] = 30
    /\ CohortDone =>
        /\ months = <<Jan2023, Feb2023>>
        /\ DOMAIN cohortMembers = {Jan2023}
        /\ cohortMembers[Jan2023] = {"C1", "C2"}
        /\ RatEq(retention[1][2], Half)

\* The example loaded with C1's February order first and C2's order second,
\* all metrics computed.
C4_Witness ==
    /\ pc = "idle"
    /\ loaded[1].order_date[2] = 2
    /\ loaded[2].customer_id = "C2"
    /\ totalRev = 65
    /\ RatEq(retention[1][2], Half)

(***************************************************************************)
(* Promotions: orders inside and outside the window of 20 to 30 November,  *)
(* without a discount cell, with discount 0, 0.10 or 0.20 or, outside the  *)
(* window, with a negative one.                                            *)
(***************************************************************************)
MaxPromoOrders == 4

PromoRows ==
    [customer_id : {"C1"}, order_date : {<<2023, 11, 25>>}, product_id : {"P1"},
     quantity : {1}, unit_price : {10}]
    \cup
    [customer_id : {"C1"}, order_date : {<<2023, 11, 25>>}, product_id : {"P1"},
     quantity : {1}, unit_price : {10}, discount : {0, 10, 20}]
    \cup
    [customer_id : {"C1"}, order_date : {<<2023, 12, 1>>}, product_id : {"P1"},
     quantity : {1}, unit_price : {10}, discount : {-5, 10, 20}]

InitPromo == \E rows \in SeqsUpTo(PromoRows, MaxPromoOrders) :
                Loaded(rows, CustomerTable, ProductTable)

SpecPromo == InitPromo /\ [][Next]_vars

\* Whether row k of the loaded orders falls into the promotional window.
RowInWindow(k) ==
    /\ loaded[k].order_date[1] = loaded[1].order_date[1]
    /\ loaded[k].order_date[2] = 11
    /\ loaded[k].order_date[3] \in 20..30

\* Whether row k carries a discount above 0.
RowDiscounted(k) == "discount" \in DOMAIN loaded[k] /\ loaded[k].discount > 0

RECURSIVE DiscountSum(_)
DiscountSum(K) ==
    IF K = {} THEN 0
    ELSE LET k == CHOOSE x \in K : TRUE IN loaded[k].discount + DiscountSum(K \ {k})

\* The average discount depth the claim describes, over the rows K.
DepthOver(K) ==
    LET D == {k \in K : RowDiscounted(k)}
    IN  IF D = {} THEN Zero ELSE Quot(DiscountSum(D), Cardinality(D))

WindowRows == {k \in 1..Len(loaded) : RowInWindow(k)}

\* 0.15 and 0.075, in hundredths
Depth015 == <<15, 1>>

Depth0075 == <<15, 2>>

\* C10: the average discount depth of the window orders and of the non-window
\* orders is the mean of discount over the orders with discount > 0 only;
\* orders with no or a non-positive discount count neither in the sum nor in
\* the count (discounts [0, 0, 0.1, 0.2] give 0.15), and a set without a
\* discounted order gives 0.
C10_DiscountedOnly ==
    PromoDone =>
        /\ RatEq(bfAvgDiscOnly, DepthOver(WindowRows))
        /\ RatEq(nonbfAvgDiscOnly, DepthOver((1..Len(loaded)) \ WindowRows))
        /\ (\A k \in WindowRows : ~RowDiscounted(k)) => bfAvgDiscOnly = Zero
        /\ (/\ Len(bfOrders) = 4
            /\ [k \in 1..4 |-> DiscountOf(bfOrders[k])] = <<0, 0, 10, 20>>)
              => RatEq(bfAvgDiscOnly, Depth015) /\ ~RatEq(bfAvgDiscOnly, Depth0075)

\* The window holds four orders with discounts [0, 0, 0.1, 0.2], averaged to 0.15.
C10_Witness ==
    /\ PromoDone
    /\ Len(loaded) = 4
    /\ WindowRows = 1..4
    /\ [k \in 1..4 |-> NumOrZero(loaded[k], "discount")] = <<0, 0, 10, 20>>
    /\ "discount" \notin DOMAIN loaded[1]
    /\ RatEq(bfAvgDiscOnly, Depth015)

(***************************************************************************)
(* groupSum on its own: any sequence of orders, any key function on them,  *)
(* the revenue as value function, beside the total main() computes.        *)
(***************************************************************************)
MaxGroupLen == 3

GroupOrders == [customer_id : {"C1", "C2"}, revenue : {0, 5, 10}]

GroupKeys == {"Web", "Mobile", "Store"}

InitGroup ==
    /\ NoMain
    /\ NoShareCall
    /\ NoBootCall
    /\ gArr \in SeqsUpTo(GroupOrders, MaxGroupLen)
    /\ gKey \in [Elements(gArr) -> GroupKeys]
    /\ gOut = EmptyMap
    /\ gTotal = 0
    /\ gPc = "call"

CallGroupSum ==
    /\ gPc = "call"
    /\ gOut' = groupSum(gArr, gKey, RevenueOf(gArr))
    /\ gTotal' = TotalRevenue(gArr)
    /\ gPc' = "done"
    /\ UNCHANGED <<gArr, gKey, mainVars, shareVars, bootVars>>

NextGroup == CallGroupSum

SpecGroup == InitGroup /\ [][NextGroup]_vars

RECURSIVE RevenueAt(_)
RevenueAt(K) ==
    IF K = {} THEN 0
    ELSE LET k == CHOOSE x \in K : TRUE IN gArr[k].revenue + RevenueAt(K \ {k})

RECURSIVE GroupTotal(_)
GroupTotal(K) ==
    IF K = {} THEN 0
    ELSE LET k == CHOOSE x \in K : TRUE IN gOut[k] + GroupTotal(K \ {k})

\* C1: for every order sequence and every key function the values of
\* groupSum(orders, keyFn, o => o.revenue) add up to totalRevenue; every
\* group holds the revenue of exactly the orders with its key.
C1_GroupSumTotal ==
    gPc = "done" =>
        /\ GroupTotal(DOMAIN gOut) = gTotal
        /\ gTotal = RevenueAt(1..Len(gArr))
        /\ DOMAIN gOut = {gKey[gArr[k]] : k \in 1..Len(gArr)}
        /\ \A key \in DOMAIN gOut :
              gOut[key] = RevenueAt({k \in 1..Len(gArr) : gKey[gArr[k]] = key})

\* Three orders with revenue, two of them under one key and one under another.
C1_Witness ==
    /\ gPc = "done"
    /\ Len(gArr) = 3
    /\ \A k \in 1..3 : gArr[k].revenue > 0
    /\ gKey[gArr[1]] = gKey[gArr[3]]
    /\ gKey[gArr[1]] # gKey[gArr[2]]
    /\ Cardinality(DOMAIN gOut) = 2
    /\ GroupTotal(DOMAIN gOut) = gTotal

(***************************************************************************)
(* toShareMap on its own: any map of non-negative sums.                    *)
(***************************************************************************)
MaxSum == 3

InitShare ==
    /\ NoMain
    /\ NoGroupCall
    /\ NoBootCall
    /\ \E K \in SUBSET GroupKeys : sIn \in [K -> 0..MaxSum]
    /\ sOut = EmptyMap
    /\ sPc = "call"

CallToShareMap ==
    /\ sPc = "call"
    /\ sOut' = toShareMap(sIn)
    /\ sPc' = "done"
    /\ UNCHANGED <<sIn, mainVars, groupVars, bootVars>>

NextShare == CallToShareMap

SpecShare == InitShare /\ [][NextShare]_vars

RECURSIVE ShareTotal(_)
ShareTotal(K) ==
    IF K = {} THEN Zero
    ELSE LET k == CHOOSE x \in K : TRUE IN RatAdd(sOut[k], ShareTotal(K \ {k}))

RECURSIVE InputTotal(_)
InputTotal(K) ==
    IF K = {} THEN 0
    ELSE LET k == CHOOSE x \in K : TRUE IN sIn[k] + InputTotal(K \ {k})

\* C2 as stated: for any non-empty input map of non-negative sums the values
\* of toShareMap(map) add up to 1.0; for an empty input map they add up to 0.
C2_AsStated ==
    sPc = "done" =>
        IF DOMAIN sIn # {}
        THEN RatEq(ShareTotal(DOMAIN sOut), One)
        ELSE RatEq(ShareTotal(DOMAIN sOut), Zero)

\* C2 amended: for any input map of non-negative sums whose total is positive
\* the values of toShareMap(map) add up to 1.0; when the total is 0, that is
\* for the empty map and for a map whose sums are all 0, they add up to 0.
\* The output has the keys of the input.
C2_SharesSum ==
    sPc = "done" =>
        /\ DOMAIN sOut = DOMAIN sIn
        /\ IF InputTotal(DOMAIN sIn) > 0
           THEN RatEq(ShareTotal(DOMAIN sOut), One)
           ELSE RatEq(ShareTotal(DOMAIN sOut), Zero)
        /\ \A k \in DOMAIN sIn :
              RatEq(sOut[k], Quot(sIn[k], OrOne(InputTotal(DOMAIN sIn))))

\* A map of three keys with different positive sums, shared out to a total of 1.
C2_Witness ==
    /\ sPc = "done"
    /\ DOMAIN sIn = GroupKeys
    /\ sIn["Web"] = 1 /\ sIn["Mobile"] = 2 /\ sIn["Store"] = 3
    /\ RatEq(sOut["Store"], Half)
    /\ RatEq(ShareTotal(DOMAIN sOut), One)

(***************************************************************************)
(* bootstrapCI on its own: two samples, an iteration count, and every      *)
(* outcome of the random draws, one loop iteration per step.               *)
(***************************************************************************)
MaxIters == 3

Samples == {<<>>, <<10>>, <<10, 30>>}

InitBoot ==
    /\ NoMain
    /\ NoGroupCall
    /\ NoShareCall
    /\ dataA \in Samples
    /\ dataB \in Samples
    /\ iters \in 1..MaxIters
    /\ iterI = 0
    /\ diffs = <<>>
    /\ ci = [diff |-> Zero, lo |-> Zero, hi |-> Zero]
    /\ bPc = "loop"

\* One iteration of the loop of bootstrapCI.
ResampleOnce ==
    /\ bPc = "loop"
    /\ iterI < iters
    /\ \E drawA \in Draws(dataA) : \E drawB \in Draws(dataB) :
        diffs' = Append(diffs, RatSub(mean(Resample(dataA, drawA)),
                                      mean(Resample(dataB, drawB))))
    /\ iterI' = iterI + 1
    /\ UNCHANGED <<dataA, dataB, iters, ci, bPc, mainVars, groupVars, shareVars>>

\* The loop is over: sort, read the two percentiles, return.
ReturnCI ==
    /\ bPc = "loop"
    /\ iterI >= iters
    /\ diffs' = SortNumbers(diffs)
    /\ ci' = [diff |-> RatSub(mean(dataA), mean(dataB)),
              lo   |-> At(diffs', FloorOf(25, iters)),
              hi   |-> At(diffs', FloorOf(975, iters))]
    /\ bPc' = "done"
    /\ UNCHANGED <<dataA, dataB, iters, iterI, mainVars, groupVars, shareVars>>

NextBoot == ResampleOnce \/ ReturnCI

SpecBoot == InitBoot /\ [][NextBoot]_vars

\* C9: for any two samples, empty ones included, any iteration count of at
\* least 1 and every outcome of the draws, bootstrapCI returns an interval of
\* two numbers with lo <= hi, read from the sorted differences at the indices
\* floor(0.025 * B) and floor(0.975 * B).
C9_LoLeHi ==
    /\ bPc = "done" =>
        /\ Len(diffs) = iters
        /\ \A k \in 1..(Len(diffs) - 1) : RatLe(diffs[k], diffs[k + 1])
        /\ FloorOf(25, iters) <= FloorOf(975, iters)
        /\ FloorOf(975, iters) < iters
        /\ ci.lo = diffs[FloorOf(25, iters) + 1]
        /\ ci.hi = diffs[FloorOf(975, iters) + 1]
        /\ IsNumber(ci.lo)
        /\ IsNumber(ci.hi)
        /\ RatLe(ci.lo, ci.hi)
    /\ bPc = "loop" => iterI <= iters /\ Len(diffs) = iterI

\* Three iterations over an empty and a two-element sample, returned with lo
\* strictly below hi.
C9_Witness ==
    /\ bPc = "done"
    /\ dataA = <<>>
    /\ Len(dataB) = 2
    /\ iters = 3
    /\ ~RatLe(ci.hi, ci.lo)

(***************************************************************************)
(* Enrichment: orders whose product and customer may be missing from the   *)
(* tables, and tables in which an id may occur more than once.             *)
(***************************************************************************)
MaxJoinOrders == 2

MaxTableRows == 2

JoinOrderRows ==
    [customer_id : {"C1", "C2"}, order_date : {<<2023, 2, 14>>},
     product_id : {"P1", "P2"}, quantity : {1}, unit_price : {10}]

JoinProductRows == [product_id : {"P1"}, category : {"Toys", "Books"}]

JoinCustomerRows ==
    {[customer_id |-> "C1", segment |-> "Retail", country |-> "US"],
     [customer_id |-> "C1", segment |-> "Pro", country |-> "DE"]}

InitJoin ==
    \E rows \in SeqsUpTo(JoinOrderRows, MaxJoinOrders) :
    \E custs \in SeqsUpTo(JoinCustomerRows, MaxTableRows) :
    \E prods \in SeqsUpTo(JoinProductRows, MaxTableRows) :
        Loaded(rows, custs, prods)

SpecJoin == InitJoin /\ [][Next]_vars

\* The orders are enriched and still in the place main() left them at.
EnrichedInPlace == pc \in {"kpis", "promo", "churn", "cohort"}

\* The rows of a table with the given id, by position.
Matches(table, idField, id) == {k \in 1..Len(table) : table[k][idField] = id}

\* The last row of a table with the given id.
LastMatch(table, idField, id) ==
    LET K == Matches(table, idField, id)
    IN  table[CHOOSE k \in K : \A j \in K : j <= k]

\* The field a left-outer join puts on an order.
Joined(table, idField, id, f) ==
    IF Matches(table, idField, id) = {} THEN "Unknown"
    ELSE LastMatch(table, idField, id)[f]

\* What the claim asks of the enriched order made of a loaded row.
EnrichedFrom(o, row) ==
    /\ \A f \in DOMAIN row : f \in DOMAIN o /\ o[f] = row[f]
    /\ o.category = Joined(products, "product_id", row.product_id, "category")
    /\ o.segment = Joined(customers, "customer_id", row.customer_id, "segment")
    /\ o.country = Joined(customers, "customer_id", row.customer_id, "country")

\* The number of places of a sequence that hold x.
Count(seq, x) == Cardinality({k \in 1..Len(seq) : seq[k] = x})

\* C11: enrichment is a left-outer join: exactly one enriched order per input
\* order, none dropped and none duplicated; an unmatched product_id gives
\* category "Unknown", an unmatched customer_id gives segment and country
\* "Unknown", and of several records with one id the last one is joined.
C11_LeftOuterJoin ==
    /\ pc # "enrich" => Len(orders) = Len(loaded)
    /\ EnrichedInPlace =>
          \A k \in 1..Len(loaded) : EnrichedFrom(orders[k], loaded[k])
    /\ pc # "enrich" =>
          /\ \A k \in 1..Len(orders) :
                \E j \in 1..Len(loaded) : EnrichedFrom(orders[k], loaded[j])
          /\ \A k \in 1..Len(orders) :
                Count(orders, orders[k])
                    = Cardinality({j \in 1..Len(loaded) : EnrichedFrom(orders[k], loaded[j])})

\* An order of an unknown product and an unknown customer beside one whose
\* product and customer both occur twice in the tables, with different fields.
C11_Witness ==
    /\ EnrichedInPlace
    /\ Len(orders) = 2
    /\ orders[1].product_id = "P2" /\ orders[1].category = "Unknown"
    /\ orders[1].customer_id = "C2"
    /\ orders[1].segment = "Unknown" /\ orders[1].country = "Unknown"
    /\ orders[2].product_id = "P1" /\ orders[2].customer_id = "C1"
    /\ Len(products) = 2 /\ products[1].category = "Books" /\ products[2].category = "Toys"
    /\ orders[2].category = "Toys"
    /\ Len(customers) = 2 /\ customers[1].segment = "Retail" /\ customers[2].segment = "Pro"
    /\ orders[2].segment = "Pro" /\ orders[2].country = "DE"

(***************************************************************************)
(* The enriched orders as a read-only input of the metrics.                *)
(***************************************************************************)
\* The enriched orders in the order of orders.csv.
EnrichedLoaded ==
    [k \in 1..Len(loaded) |->
        EnrichOrder(loaded[k], MapById(products, "product_id"),
                    MapById(customers, "customer_id"))]

\* C12: the enriched order sequence is read-only once derived: no metric
\* computation mutates an order or changes the order of the sequence, so after
\* all metrics have been computed the sequence is still in input order.
C12_ReadOnly == pc # "enrich" => orders = EnrichedLoaded

(***************************************************************************)
(* computeChurn as a function of the data and the window length.           *)
(***************************************************************************)
\* The buyers whose latest order is more than w days before the dataset's.
ChurnedAt(w) == {c \in BuyerSet : Latest(c) < DatasetEnd - w}

\* What a first call of computeChurn(w) returns on the data as loaded.
FirstCall(w) == computeChurn(EnrichedLoaded, BuyerSet, DatasetEnd, w)

\* C13: computeChurn can be called any number of times, in any order of window
\* lengths, before or after the cohort retention matrix is built, the change
\* handler of the window selector included: every call with window w returns
\* what a first call with w returns on the same data.
C13_CallsIndependent ==
    ChurnDone =>
        \A wr \in ChurnResults :
            /\ wr[2] = FirstCall(wr[1])
            /\ wr[2].churned = Cardinality(ChurnedAt(wr[1]))
            /\ wr[2].buyers = Cardinality(BuyerSet)
            /\ wr[2].cutoff = DatasetEnd - wr[1]

\* The selector asks again for 60 days after the cohort step has sorted orders
\* that were not loaded in date order, and a buyer has churned.
C13_Witness ==
    /\ pc = "idle"
    /\ orders # EnrichedLoaded
    /\ selected = 60
    /\ churnSelected = churn60
    /\ churnSelected.churned = 1
    /\ churnSelected.buyers = 2

\* C14: on fixed data the churned count does not grow with the window length:
\* for 0 <= w1 <= w2 every buyer churned at w2 is churned at w1; churned is at
\* most buyers for every window; and a buyer who placed the latest order of the
\* dataset is never churned.
C14_Monotone ==
    ChurnDone =>
        /\ \A a \in ChurnResults : \A b \in ChurnResults :
              (0 <= a[1] /\ a[1] <= b[1]) =>
                  /\ CountedChurned(b[2]) \subseteq CountedChurned(a[2])
                  /\ ChurnedAt(b[1]) \subseteq ChurnedAt(a[1])
                  /\ b[2].churned <= a[2].churned
        /\ \A wr \in ChurnResults :
              /\ wr[2].churned = Cardinality(CountedChurned(wr[2]))
              /\ wr[2].churned <= wr[2].buyers
              /\ \A c \in BuyerSet :
                    Latest(c) = DatasetEnd => c \notin CountedChurned(wr[2])

\* Two buyers, one of them with the latest order of the dataset: the other one
\* is churned at 60 days and at the window 0 of the selector, not at 120 days.
C14_Witness ==
    /\ pc = "idle"
    /\ selected = 0
    /\ churnSelected.churned = 1
    /\ churn60.churned = 1
    /\ churn120.churned = 0
    /\ churn60.buyers = 2

(***************************************************************************)
(* The acquisition cohorts as a partition of the buyers.                   *)
(***************************************************************************)
\* The cohorts that hold a buyer.
CohortsOf(c) == {key \in DOMAIN cohortMembers : c \in cohortMembers[key]}

RECURSIVE SizeSum(_)
SizeSum(keys) ==
    IF keys = {} THEN 0
    ELSE LET key == CHOOSE x \in keys : TRUE
         IN  Cardinality(cohortMembers[key]) + SizeSum(keys \ {key})

\* C15: the acquisition cohorts partition the buyers: every customer_id with
\* an order is in exactly one cohort, the one of the year-month of its earliest
\* order, so the cohort sizes add up to the number of distinct buyers, and
\* every cohort key is a month in which the members of the cohort are active.
C15_CohortsPartition ==
    CohortDone =>
        /\ \A c \in BuyerSet : CohortsOf(c) = {ym(Earliest(c))}
        /\ \A key \in DOMAIN cohortMembers :
              /\ cohortMembers[key] # {}
              /\ cohortMembers[key] \subseteq BuyerSet
              /\ key \in DOMAIN buyersByMonth
              /\ cohortMembers[key] \subseteq buyersByMonth[key]
        /\ SizeSum(DOMAIN cohortMembers) = Cardinality(BuyerSet)

\* Two buyers in two cohorts, loaded latest order first, one of them with a
\* later order in another month.
C15_Witness ==
    /\ CohortDone
    /\ orders # EnrichedLoaded
    /\ Cardinality(BuyerSet) = 2
    /\ Cardinality(DOMAIN cohortMembers) = 2
    /\ \E c \in BuyerSet : NumOrders(c) = 2 /\ ym(Latest(c)) # ym(Earliest(c))

=============================================================================
